---- MODULE Spec2Model ----
(***************************************************************************)
(* The chat orchestrator of interpreter/core/core.py (class                *)
(* OpenInterpreter): chat(), wait(), _streaming_chat() and the message     *)
(* aggregator _respond_and_store(), as a state machine.                    *)
(*                                                                         *)
(* A generator is modelled by its suspension point: gen.pc names the yield *)
(* it is suspended at ("L414", "L418", "L448", "L456", "L483", "L495": the *)
(* line of the yield), "start" before the first next(), "pull" at the head *)
(* of the for loop of line 384, and "done" / "raised" / "closed" once it   *)
(* has ended.  Texts are sequences of characters (strings).                *)
(***************************************************************************)
EXTENDS Naturals, Sequences, FiniteSets, TLC

\* ---------------------------------------------------------------- bounds
\* Chunks the Response Source yields in one run of the aggregator model.
MaxChunks == 3
\* Chunks the Response Source yields in one run of the orchestrator model.
MaxModeChunks == 2
\* chat() calls the caller makes in one run.
MaxCalls == 1
\* max_output (core.py line 50, 2800 by default), scaled down.
MaxOutput == 2
MaxConvChunks == 2
MaxConvCalls == 2

\* ------------------------------------------------------------ data model
NoFormat == "none"
\* Python's None as a chunk's content.
None == <<"None">>
NoFlag == [role |-> "none", type |-> "none", format |-> "none"]
NoChunk == [role |-> "none", type |-> "none", format |-> "none", content |-> <<>>]
NoMessage == [kind |-> "none", value |-> <<>>]

Msg(r, t, f, c) == [role |-> r, type |-> t, format |-> f, content |-> c]

\* The (role, type, format) a Response Source chunk may carry.
ChunkKinds ==
    { <<"assistant", "message", NoFormat>>,
      <<"assistant", "code", "python">>,
      <<"assistant", "code", "shell">>,
      <<"computer", "console", "output">>,
      <<"computer", "console", "active_line">>,
      <<"computer", "confirmation", "execution">>,
      <<"assistant", "review", NoFormat>> }

\* The n-th chunk of the source carries the text "n", so that the order of a
\* concatenation can be read off the log; a chunk may also carry "" or None.
ChunksAt(n) ==
    { Msg(k[1], k[2], k[3], <<ToString(n)>>) : k \in ChunkKinds }
    \cup { Msg("assistant", "message", NoFormat, <<>>),
           Msg("computer", "console", "output", <<>>),
           Msg("computer", "console", "active_line", None) }

\* What a caller passes as `message`.
StrMessage(s) == [kind |-> "str", value |-> s]
DictMessage(m) == [kind |-> "dict", value |-> m]
ListMessage(l) == [kind |-> "list", value |-> l]
ModeInputs == { NoMessage, StrMessage(<<"h", "i">>) }
AggInputs == { StrMessage(<<"h", "i">>) }

\* A message dict that has no "role" key.
NoRole == "none"
Hello == <<"h", "e", "l", "l", "o">>
\* What a conversation of several calls passes: strings, the empty string
\* among them, a dict without a role and one with a role, a list and the
\* empty list.
ConvInputs ==
    { StrMessage(Hello), StrMessage(<<>>),
      DictMessage(Msg(NoRole, "message", NoFormat, <<"y">>)),
      DictMessage(Msg("computer", "console", "output", <<"o">>)),
      ListMessage(<< Msg("user", "message", NoFormat, <<"a">>),
                     Msg("assistant", "message", NoFormat, <<"b">>) >>),
      ListMessage(<<>>) }

Last(s) == s[Len(s)]
Kind(m) == <<m.role, m.type, m.format>>

\* ------------------------------------------------------------- externals
\* take_screenshot() returns the path of the image it wrote.
ScreenshotPath == <<"screenshots/screenshot.png">>
TruncationMessage == <<"Output truncated.">>
LastChars(s, n) == IF Len(s) <= n THEN s ELSE SubSeq(s, Len(s) - n + 1, Len(s))

\* truncate_output(data, max_output_chars, add_scrollbars)
truncate_output(data, max) ==
    IF Len(data) > max THEN TruncationMessage \o LastChars(data, max) ELSE data


\* ------------------------------------------------- conversation snapshots
NoName == [slug |-> <<"none">>, date |-> 0]
InvalidFilenameChars == { "<", ">", ":", "\"", "/", "\\", "|", "?", "*", "!", "\n" }
SlugChars == 25
ShortSlugChars == 15
FirstChars(s, n) == IF Len(s) <= n THEN s ELSE SubSeq(s, 1, n)
\* Position of the last blank of s, 0 when it has none.
LastBlank(s) ==
    IF \E i \in DOMAIN s : s[i] = " "
    THEN CHOOSE i \in DOMAIN s : s[i] = " " /\ \A j \in DOMAIN s : s[j] = " " => j <= i
    ELSE 0
\* "_".join(content[:25].split(" ")[:-1]), or content[:15] when there is no blank.
FirstFewWords(content) ==
    LET head == FirstChars(content, SlugChars)
        cut == LastBlank(head)
    IN IF cut > 0
       THEN [i \in 1..(cut - 1) |-> IF head[i] = " " THEN "_" ELSE head[i]]
       ELSE FirstChars(content, ShortSlugChars)
RemoveInvalid(s) == SelectSeq(s, LAMBDA ch : ch \notin InvalidFilenameChars)
\* "__".join([first_few_words, date]) + ".json"
DeriveFilename(content, date) ==
    [slug |-> RemoveInvalid(FirstFewWords(content)), date |-> date]
\* open(path, "w") and json.dump: the file of that name holds the whole log.
WriteSnapshot(files, name, log) ==
    { f \in files : f.name # name } \cup { [name |-> name, snapshot |-> log] }

\* ------------------------------------------------------------------ state
VARIABLES
    messages,               \* self.messages
    responding,             \* self.responding
    last_messages_count,    \* self.last_messages_count
    conversation_filename,  \* self.conversation_filename
    conversation_history,   \* self.conversation_history (a setting)
    auto_run,               \* self.auto_run (a setting)
    stop_event,             \* self.stop_event.is_set()
    disk,                   \* the files under conversation_history_path
    gen,                    \* the generator chat() made: _streaming_chat(...)
    events,                 \* what that generator has yielded so far
    yielded,                \* chunks the Response Source has yielded
    limit,                  \* chunks the Response Source yields at most
    caller,                 \* where the caller's thread is
    bg,                     \* the thread a non-blocking chat() started
    ret,                    \* what the caller's last call returned
    calls,                  \* chat() calls made by the caller
    call_limit,             \* chat() calls the caller makes at most
    obs                     \* observations of the current cycle (history)

vars == << messages, responding, last_messages_count, conversation_filename,
           conversation_history, auto_run, stop_event, disk, gen, events,
           yielded, limit, caller, bg, ret, calls, call_limit, obs >>

object == << messages, last_messages_count, conversation_filename, disk >>
settings == << conversation_history, auto_run, limit, call_limit >>

NoGen == [pc |-> "none", flag |-> NoFlag, chunk |-> NoChunk,
          message |-> NoMessage, owner |-> "none"]
NewGen(m, owner) == [pc |-> "start", flag |-> NoFlag, chunk |-> NoChunk,
                     message |-> m, owner |-> owner]
NoThread == [pc |-> "none", message |-> NoMessage, stream |-> FALSE]
NoReturn == [kind |-> "none", value |-> <<>>]
FreshObs == [src |-> <<>>, cancel_seen |-> FALSE, cancel_log |-> <<>>,
             input_log |-> <<>>, started |-> FALSE, shot |-> "none",
             prior |-> <<>>, prior_disk |-> {}, prior_cursor |-> 0,
             prior_name |-> NoName,
             pre_log |-> <<>>, pre_events |-> <<>>, pre_flag |-> NoFlag,
             after_reset |-> FALSE, wiped |-> <<>>]

SuspendedAt == { "L414", "L418", "L448", "L456", "L483", "L495" }
Ended == { "done", "raised", "closed" }

InitWith(lim, auto_runs, histories, max_calls) ==
    /\ messages = <<>>
    /\ responding = FALSE
    /\ last_messages_count = 0
    /\ conversation_filename = NoName
    /\ conversation_history \in histories
    /\ auto_run \in auto_runs
    /\ stop_event = FALSE
    /\ disk = {}
    /\ gen = NoGen
    /\ events = <<>>
    /\ yielded = 0
    /\ limit = lim
    /\ caller = "idle"
    /\ bg = NoThread
    /\ ret = NoReturn
    /\ calls = 0
    /\ call_limit = max_calls
    /\ obs = FreshObs

\* The orchestrator is run with the settings __init__ defaults to (lines 47
\* and 63), the aggregator with every setting.
Init == InitWith(MaxModeChunks, {FALSE}, {TRUE}, MaxCalls)
InitAgg == InitWith(MaxChunks, BOOLEAN, BOOLEAN, MaxCalls)
\* A conversation: several calls on one instance, with reset() between them.
InitConv == InitWith(MaxConvChunks, {FALSE}, {TRUE}, MaxConvCalls)


\* --------------------------------------------------- _respond_and_store
\* Only the active_line markers taken as ephemeral.
is_ephemeral_by_format(chunk) == chunk.format = "active_line"
\* Lines 370-379.
is_ephemeral(chunk) == chunk.format = "active_line" \/ chunk.type = "review"

\* The chunk that says the code has finished running (lines 395-398).
IsEndOfExecution(chunk) == chunk.format = "active_line" /\ chunk.content = None

Placeholder == Msg("computer", "console", "output", <<>>)

\* The empty output message added whatever the last message is.
WithPlaceholderAlways(log, chunk) ==
    IF IsEndOfExecution(chunk) /\ log # <<>>
    THEN Append(log, Placeholder)
    ELSE log
\* Lines 400-408: the empty output message added when none was produced.
WithPlaceholder(log, chunk) ==
    IF IsEndOfExecution(chunk) /\ log # <<>> /\ Last(log).role # "computer"
    THEN Append(log, Placeholder)
    ELSE log

\* The format compared also when last_flag_base carries none.
ContinuesSameFormat(flag, chunk) ==
    /\ flag # NoFlag
    /\ flag.role = chunk.role
    /\ flag.type = chunk.type
    /\ chunk.format = flag.format
\* Lines 422-432: does the chunk continue the message of last_flag_base?
Continues(flag, chunk) ==
    /\ flag # NoFlag
    /\ flag.role = chunk.role
    /\ flag.type = chunk.type
    /\ \/ flag.format = NoFormat
       \/ chunk.format # NoFormat /\ chunk.format = flag.format

\* Lines 450-454: last_flag_base of a new message.
FlagOf(chunk) ==
    [role |-> chunk.role, type |-> chunk.type,
     format |-> IF chunk.format # NoFormat /\ chunk.type # "console"
                THEN chunk.format ELSE NoFormat]

\* Lines 435-441: a property the last message has differs from the chunk's.
Differs(last, chunk) ==
    \/ last.role # chunk.role
    \/ last.type # chunk.type
    \/ last.format # NoFormat /\ last.format # chunk.format

\* Every stored chunk made an entry of its own.
ContinuedAsNew(log, chunk) ==
    IF is_ephemeral(chunk) THEN log ELSE Append(log, chunk)
\* The chunk's content added to the last message whatever that message is.
ContinuedUnchecked(log, chunk) ==
    IF is_ephemeral(chunk) THEN log
    ELSE [log EXCEPT ![Len(log)].content = @ \o chunk.content]
\* The chunk's content put in front of the open message's.
ContinuedInFront(log, chunk) ==
    IF is_ephemeral(chunk) THEN log
    ELSE IF Differs(Last(log), chunk) THEN Append(log, chunk)
    ELSE [log EXCEPT ![Len(log)].content = chunk.content \o @]
\* Lines 434-444: the log after a chunk that continues the open message.
Continued(log, chunk) ==
    IF is_ephemeral(chunk) THEN log
    ELSE IF Differs(Last(log), chunk) THEN Append(log, chunk)
    ELSE [log EXCEPT ![Len(log)].content = @ \o chunk.content]

ImageMessage(chunk) == Msg(chunk.role, "image", "path", ScreenshotPath)

\* The chunk stored in the place of the last message.
OpenedInPlace(log, chunk, shot) ==
    IF log = <<>> THEN << chunk >> ELSE [log EXCEPT ![Len(log)] = chunk]
\* The chunk not yet stored when it is yielded.
OpenedAfterYield(log, chunk, shot) == log
\* The screenshot put after the code message.
OpenedImageLast(log, chunk, shot) ==
    IF is_ephemeral(chunk) THEN log
    ELSE IF chunk.type = "code" /\ shot
         THEN Append(Append(log, chunk), ImageMessage(chunk))
         ELSE Append(log, chunk)
\* Lines 459-480: the log after a chunk that opened a new message; shot says
\* whether take_screenshot() returned.
Opened(log, chunk, shot) ==
    IF is_ephemeral(chunk) THEN log
    ELSE IF chunk.type = "code" /\ shot
         THEN Append(Append(log, ImageMessage(chunk)), chunk)
         ELSE Append(log, chunk)

\* The last message left as long as it is.
NotTruncated(log, chunk) == log
\* Lines 486-491: the last message after a console output chunk.
Truncated(log, chunk) ==
    IF chunk.type = "console" /\ chunk.format = "output"
    THEN [log EXCEPT ![Len(log)].content = truncate_output(@, MaxOutput)]
    ELSE log

StartFlag(flag) == [event |-> "start", role |-> flag.role, type |-> flag.type,
                    format |-> flag.format, content |-> <<>>]
EndFlag(flag) == [event |-> "end", role |-> flag.role, type |-> flag.type,
                  format |-> flag.format, content |-> <<>>]
ChunkEvent(chunk) == [event |-> "chunk", role |-> chunk.role, type |-> chunk.type,
                      format |-> chunk.format, content |-> chunk.content]

\* The stop request never looked at.
StopIgnored == FALSE
\* Line 386: is the cycle asked to stop?
StopRequested == stop_event

\* ------------------------------------------------------ _streaming_chat
\* `if message:` in the place of line 287.
NonEmptyMessage(m) == m.kind \in {"str", "dict", "list"} /\ m.value # <<>>
\* Line 287: `if message or message == ""`.
HasMessage(m) ==
    \/ m.kind = "str"
    \/ m.kind \in {"dict", "list"} /\ m.value # <<>>

\* A list added to the end of the log.
WithInputListAdded(log, m) ==
    CASE m.kind = "str" -> Append(log, Msg("user", "message", NoFormat, m.value))
      [] m.kind = "dict" ->
            Append(log, IF m.value.role = "none"
                        THEN [m.value EXCEPT !.role = "user"] ELSE m.value)
      [] m.kind = "list" -> log \o m.value
      [] OTHER -> log
\* Lines 290-301: the log after the caller's message was added.
WithInput(log, m) ==
    CASE m.kind = "str" -> Append(log, Msg("user", "message", NoFormat, m.value))
      [] m.kind = "dict" ->
            Append(log, IF m.value.role = "none"
                        THEN [m.value EXCEPT !.role = "user"] ELSE m.value)
      [] m.kind = "list" -> m.value
      [] OTHER -> log

\* The name derived anew at every write.
FilenameDerivedAnew(log) == DeriveFilename(log[1].content, calls)
\* Lines 324-338: the name of the conversation's file.
FilenameFor(log) ==
    IF conversation_filename = NoName
    THEN DeriveFilename(log[1].content, calls)
    ELSE conversation_filename

\* Lines 321-351: what follows the aggregator's end, then StopIteration.
Save ==
    IF conversation_history
    THEN /\ conversation_filename' = FilenameFor(messages)
         /\ disk' = WriteSnapshot(disk, FilenameFor(messages), messages)
    ELSE UNCHANGED << conversation_filename, disk >>

\* The loop left without the end flag of the open message.
AfterLoopNoEndFlag ==
    /\ gen' = [gen EXCEPT !.pc = "done"]
    /\ Save
    /\ UNCHANGED events
\* Lines 493-495 and then 321-351: after the for loop.  With a message open
\* its end flag is yielded first.
AfterLoop ==
    IF gen.flag # NoFlag
    THEN /\ events' = Append(events, EndFlag(gen.flag))
         /\ gen' = [gen EXCEPT !.pc = "L495"]
         /\ UNCHANGED << conversation_filename, disk >>
    ELSE /\ gen' = [gen EXCEPT !.pc = "done"]
         /\ Save
         /\ UNCHANGED events


\* ----------------------------------------------- the generator's steps
\* Who is pulling from the generator: chat()'s own loop (line 245) on the
\* caller's or on the background thread, or the caller holding the stream.
Driving ==
    \/ gen.owner = "caller" /\ caller = "chat"
    \/ gen.owner = "bg" /\ bg.pc = "chat"
    \/ gen.owner = "stream" /\ caller = "idle"

threads == << caller, bg, ret, calls, responding >>

\* The first next(): lines 282-319, up to the for loop of line 384.
Start ==
    /\ gen.pc = "start" /\ Driving
    /\ IF HasMessage(gen.message)
       THEN /\ messages' = WithInput(messages, gen.message)
            /\ last_messages_count' = Len(messages')
            /\ gen' = [gen EXCEPT !.pc = "pull"]
            /\ obs' = [obs EXCEPT !.input_log = messages', !.started = TRUE]
       ELSE /\ gen' = [gen EXCEPT !.pc = "raised"]
            /\ UNCHANGED << messages, last_messages_count, obs >>
    /\ UNCHANGED << conversation_filename, disk, events, yielded, stop_event >>
    /\ UNCHANGED << threads, settings >>

\* respond(self) raises.
PullRaise ==
    /\ gen.pc = "pull" /\ Driving
    /\ gen' = [gen EXCEPT !.pc = "raised"]
    /\ UNCHANGED << object, events, yielded, stop_event, obs, threads, settings >>

\* respond(self) is exhausted.
PullEnd ==
    /\ gen.pc = "pull" /\ Driving
    /\ AfterLoop
    /\ UNCHANGED << messages, last_messages_count, yielded, stop_event, obs >>
    /\ UNCHANGED << threads, settings >>

\* Lines 384-456: respond(self) yields `chunk`; the body runs to its first
\* yield, to `continue` or to `break`.
PullChunk(chunk) ==
    /\ gen.pc = "pull" /\ Driving
    /\ yielded < limit
    /\ yielded' = yielded + 1
    /\ obs' = [obs EXCEPT !.src = Append(@, chunk),
                          !.cancel_seen = @ \/ stop_event,
                          !.cancel_log = IF stop_event /\ ~obs.cancel_seen
                                         THEN messages ELSE @,
                          !.pre_log = messages, !.pre_events = events,
                          !.pre_flag = gen.flag]
    /\ IF StopRequested
       THEN /\ AfterLoop
            /\ UNCHANGED messages
       ELSE IF chunk.content = <<>>
       THEN UNCHANGED << gen, events, messages, conversation_filename, disk >>
       ELSE IF chunk.type = "confirmation"
       THEN /\ messages' = WithPlaceholder(messages, chunk)
            /\ IF gen.flag # NoFlag
               THEN /\ events' = Append(events, EndFlag(gen.flag))
                    /\ gen' = [gen EXCEPT !.pc = "L414", !.chunk = chunk]
               ELSE IF ~auto_run
               THEN /\ events' = Append(events, ChunkEvent(chunk))
                    /\ gen' = [gen EXCEPT !.pc = "L418", !.chunk = chunk]
               ELSE /\ gen' = [gen EXCEPT !.chunk = chunk]
                    /\ UNCHANGED events
            /\ UNCHANGED << conversation_filename, disk >>
       ELSE IF Continues(gen.flag, chunk)
       THEN /\ IF WithPlaceholder(messages, chunk) = <<>> /\ ~is_ephemeral(chunk)
               THEN /\ gen' = [gen EXCEPT !.pc = "raised", !.chunk = chunk]
                    /\ UNCHANGED << messages, events >>
               ELSE /\ messages' = Continued(WithPlaceholder(messages, chunk), chunk)
                    /\ events' = Append(events, ChunkEvent(chunk))
                    /\ gen' = [gen EXCEPT !.pc = "L483", !.chunk = chunk]
            /\ UNCHANGED << conversation_filename, disk >>
       ELSE /\ messages' = WithPlaceholder(messages, chunk)
            /\ IF gen.flag # NoFlag
               THEN /\ events' = Append(events, EndFlag(gen.flag))
                    /\ gen' = [gen EXCEPT !.pc = "L448", !.chunk = chunk]
               ELSE /\ events' = Append(events, StartFlag(FlagOf(chunk)))
                    /\ gen' = [gen EXCEPT !.pc = "L456", !.chunk = chunk,
                                          !.flag = FlagOf(chunk)]
            /\ UNCHANGED << conversation_filename, disk >>
    /\ UNCHANGED << last_messages_count, stop_event, threads, settings >>

\* last_flag_base left as it was after the end flag.
Resume414KeepsFlag ==
    /\ gen.pc = "L414" /\ Driving
    /\ IF ~auto_run
       THEN /\ events' = Append(events, ChunkEvent(gen.chunk))
            /\ gen' = [gen EXCEPT !.pc = "L418"]
       ELSE /\ gen' = [gen EXCEPT !.pc = "pull"]
            /\ UNCHANGED events
    /\ UNCHANGED << object, yielded, stop_event, obs, threads, settings >>
\* Lines 415-419: after the end flag that a confirmation chunk caused.
Resume414 ==
    /\ gen.pc = "L414" /\ Driving
    /\ IF ~auto_run
       THEN /\ events' = Append(events, ChunkEvent(gen.chunk))
            /\ gen' = [gen EXCEPT !.pc = "L418", !.flag = NoFlag]
       ELSE /\ gen' = [gen EXCEPT !.pc = "pull", !.flag = NoFlag]
            /\ UNCHANGED events
    /\ UNCHANGED << object, yielded, stop_event, obs, threads, settings >>

\* Line 419: `continue` after the confirmation chunk was yielded.
Resume418 ==
    /\ gen.pc = "L418" /\ Driving
    /\ gen' = [gen EXCEPT !.pc = "pull"]
    /\ UNCHANGED << object, events, yielded, stop_event, obs, threads, settings >>

\* Lines 450-456: after the end flag of the previous message.
Resume448 ==
    /\ gen.pc = "L448" /\ Driving
    /\ events' = Append(events, StartFlag(FlagOf(gen.chunk)))
    /\ gen' = [gen EXCEPT !.pc = "L456", !.flag = FlagOf(gen.chunk)]
    /\ UNCHANGED << object, yielded, stop_event, obs, threads, settings >>

\* Lines 458-483: after the start flag; take_screenshot() returns or raises.
Resume456(shot) ==
    /\ gen.pc = "L456" /\ Driving
    /\ messages' = Opened(messages, gen.chunk, shot)
    /\ obs' = [obs EXCEPT !.shot = IF gen.chunk.type = "code" /\ ~is_ephemeral(gen.chunk)
                                   THEN (IF shot THEN "ok" ELSE "failed") ELSE @]
    /\ events' = Append(events, ChunkEvent(gen.chunk))
    /\ gen' = [gen EXCEPT !.pc = "L483"]
    /\ UNCHANGED << last_messages_count, conversation_filename, disk >>
    /\ UNCHANGED << yielded, stop_event, threads, settings >>

\* Lines 485-491: after the chunk itself was yielded.
Resume483 ==
    /\ gen.pc = "L483" /\ Driving
    /\ IF messages = <<>> /\ gen.chunk.type = "console" /\ gen.chunk.format = "output"
       THEN /\ gen' = [gen EXCEPT !.pc = "raised"]
            /\ UNCHANGED messages
       ELSE /\ messages' = Truncated(messages, gen.chunk)
            /\ gen' = [gen EXCEPT !.pc = "pull"]
    /\ UNCHANGED << last_messages_count, conversation_filename, disk, events >>
    /\ UNCHANGED << yielded, stop_event, obs, threads, settings >>

\* After the final end flag: _respond_and_store returns, lines 321-351 run.
Resume495 ==
    /\ gen.pc = "L495" /\ Driving
    /\ gen' = [gen EXCEPT !.pc = "done"]
    /\ Save
    /\ UNCHANGED << messages, last_messages_count, events >>
    /\ UNCHANGED << yielded, stop_event, obs, threads, settings >>

\* The caller closes the stream it holds: GeneratorExit is raised at the
\* yield, re-raised by line 497 and ends _streaming_chat.
Close ==
    /\ gen.owner = "stream" /\ caller = "idle"
    /\ gen.pc \in SuspendedAt \cup {"start"}
    /\ gen' = [gen EXCEPT !.pc = "closed"]
    /\ UNCHANGED << object, events, yielded, stop_event, obs, threads, settings >>


\* ------------------------------------------------------- chat(), wait()
\* The flag raised by the background thread only.
responding_raised_by_worker(t) == IF t = "bg" THEN TRUE ELSE responding
\* Line 220: the flag as chat() sets it on entry, on thread t.
responding_at_entry(t) == TRUE
\* Line 249: the flag as chat() leaves it before it returns the new messages.
responding_at_return == FALSE
\* The flag left as it is by the exception handler.
responding_kept_at_except == responding
\* Line 256: the flag as chat() leaves it when an exception passes through.
responding_at_except == FALSE

\* The whole log returned.
AllMessages == messages
\* Lines 164 and 250: self.messages[self.last_messages_count:]
NewMessages == SubSeq(messages, last_messages_count + 1, Len(messages))

\* The observations a new cycle starts with.
NewObs == [FreshObs EXCEPT !.prior = messages, !.prior_disk = disk,
                           !.prior_cursor = last_messages_count,
                           !.prior_name = conversation_filename,
                           !.after_reset = (ret.kind = "reset"),
                           !.wiped = IF ret.kind = "reset" THEN obs.wiped ELSE <<>>]

NoCycle ==
    /\ gen.pc \in Ended \cup {"none"} \/ gen.owner = "orphan"
    /\ bg.pc \in {"none", "done"}

\* The caller calls chat(message, display=False, stream, blocking): lines
\* 219-246, up to the first pull from the generator.
ChatCall(message, stream, blocking) ==
    /\ caller = "idle" /\ calls < call_limit /\ NoCycle
    /\ calls' = calls + 1
    /\ responding' = responding_at_entry("caller")
    /\ IF ~blocking
       THEN /\ bg' = [pc |-> "started", message |-> message, stream |-> stream]
            /\ ret' = [kind |-> "None", value |-> <<>>]
            /\ UNCHANGED << gen, events, obs, caller >>
       ELSE /\ events' = <<>>
            /\ obs' = NewObs
            /\ UNCHANGED bg
            /\ IF stream
               THEN /\ gen' = NewGen(message, "stream")
                    /\ ret' = [kind |-> "generator", value |-> <<>>]
                    /\ UNCHANGED caller
               ELSE /\ gen' = NewGen(message, "caller")
                    /\ ret' = NoReturn
                    /\ caller' = "chat"
    /\ UNCHANGED << object, yielded, stop_event, settings >>

\* The thread of line 235 runs chat(message, display, stream, True).  With
\* stream it returns the generator of line 242, which nobody pulls from.
BgChat ==
    /\ bg.pc = "started"
    /\ responding' = responding_at_entry("bg")
    /\ events' = <<>>
    /\ obs' = NewObs
    /\ IF bg.stream
       THEN /\ gen' = NewGen(bg.message, "orphan")
            /\ bg' = [bg EXCEPT !.pc = "done"]
       ELSE /\ gen' = NewGen(bg.message, "bg")
            /\ bg' = [bg EXCEPT !.pc = "chat"]
    /\ UNCHANGED << object, yielded, stop_event, settings, caller, ret, calls >>

InChat(t) ==
    /\ gen.owner = t
    /\ IF t = "caller" THEN caller = "chat" ELSE t = "bg" /\ bg.pc = "chat"

\* Lines 248-250: the generator is exhausted.
ChatReturn(t) ==
    /\ InChat(t) /\ gen.pc = "done"
    /\ responding' = responding_at_return
    /\ IF t = "caller"
       THEN /\ caller' = "idle"
            /\ ret' = [kind |-> "list", value |-> NewMessages]
            /\ UNCHANGED bg
       ELSE /\ bg' = [bg EXCEPT !.pc = "done"]
            /\ UNCHANGED << caller, ret >>
    /\ UNCHANGED << object, gen, events, yielded, stop_event, obs, calls, settings >>

\* Lines 255-269: an exception came out of the generator.
ChatExcept(t) ==
    /\ InChat(t) /\ gen.pc = "raised"
    /\ responding' = responding_at_except
    /\ IF t = "caller"
       THEN /\ caller' = "idle"
            /\ ret' = [kind |-> "raised", value |-> <<>>]
            /\ UNCHANGED bg
       ELSE /\ bg' = [bg EXCEPT !.pc = "done"]
            /\ UNCHANGED << caller, ret >>
    /\ UNCHANGED << object, gen, events, yielded, stop_event, obs, calls, settings >>

\* The caller calls wait().
WaitCall ==
    /\ caller = "idle" /\ calls > 0 /\ ret.kind = "None"
    /\ caller' = "wait"
    /\ UNCHANGED << object, gen, events, yielded, stop_event, obs, settings >>
    /\ UNCHANGED << bg, ret, calls, responding >>

\* Lines 161-162: the poll that finds the flag down.
WaitPoll ==
    /\ caller = "wait" /\ ~responding
    /\ caller' = "slice"
    /\ UNCHANGED << object, gen, events, yielded, stop_event, obs, settings >>
    /\ UNCHANGED << bg, ret, calls, responding >>

\* Line 164.
WaitReturn ==
    /\ caller = "slice"
    /\ caller' = "idle"
    /\ ret' = [kind |-> "wait", value |-> NewMessages]
    /\ UNCHANGED << object, gen, events, yielded, stop_event, obs, settings >>
    /\ UNCHANGED << bg, calls, responding >>

\* The log reset() would leave if it kept the entries.
log_kept_by_reset == messages
\* Line 511: the log as reset() leaves it.
log_after_reset == <<>>
\* Line 512: the cursor as reset() leaves it.
cursor_after_reset == 0
\* The stored conversation name forgotten by reset().
filename_cleared_by_reset == NoName
\* reset() assigns nothing to self.conversation_filename.
filename_after_reset == conversation_filename

\* The caller calls reset() between two cycles: lines 508-512.
Reset ==
    /\ caller = "idle" /\ NoCycle
    /\ messages' = log_after_reset
    /\ last_messages_count' = cursor_after_reset
    /\ ret' = [kind |-> "reset", value |-> <<>>]
    /\ conversation_filename' = filename_after_reset
    /\ obs' = [obs EXCEPT !.wiped = messages]
    /\ UNCHANGED << disk, gen, events, yielded, stop_event >>
    /\ UNCHANGED << caller, bg, calls, responding, settings >>

\* Another thread sets self.stop_event while a cycle runs.
SetStop ==
    /\ ~stop_event
    /\ gen.pc \in SuspendedAt \cup {"start", "pull"} /\ gen.owner # "orphan"
    /\ stop_event' = TRUE
    /\ UNCHANGED << object, gen, events, yielded, obs, threads, settings >>

GenStep ==
    \/ Start
    \/ PullRaise
    \/ PullEnd
    \/ \E chunk \in ChunksAt(yielded + 1) : PullChunk(chunk)
    \/ Resume414
    \/ Resume418
    \/ Resume448
    \/ \E shot \in BOOLEAN : Resume456(shot)
    \/ Resume483
    \/ Resume495

\* The orchestrator: every way of calling chat(), and wait().
Next ==
    \/ \E m \in ModeInputs, stream \in BOOLEAN, blocking \in BOOLEAN :
          ChatCall(m, stream, blocking)
    \/ BgChat
    \/ GenStep
    \/ Close
    \/ \E t \in {"caller", "bg"} : ChatReturn(t)
    \/ \E t \in {"caller", "bg"} : ChatExcept(t)
    \/ WaitCall
    \/ WaitPoll
    \/ WaitReturn
    \/ SetStop

Spec == Init /\ [][Next]_vars

\* The aggregator: one synchronous chat(message, display=False) call.
NextAgg ==
    \/ \E m \in AggInputs : ChatCall(m, FALSE, TRUE)
    \/ GenStep
    \/ ChatReturn("caller")
    \/ ChatExcept("caller")
    \/ SetStop

SpecAgg == InitAgg /\ [][NextAgg]_vars

\* A conversation: synchronous chat(message, display=False) calls with every
\* kind of message, and reset() between them.
NextConv ==
    \/ \E m \in ConvInputs : ChatCall(m, FALSE, TRUE)
    \/ GenStep
    \/ ChatReturn("caller")
    \/ ChatExcept("caller")
    \/ Reset

SpecConv == InitConv /\ [][NextConv]_vars

\* Persistence over a conversation: chat("hello", display=False, stream)
\* calls that are drained, closed, cancelled or fail, with
\* conversation_history on.
NextSave ==
    \/ \E stream \in BOOLEAN : ChatCall(StrMessage(Hello), stream, TRUE)
    \/ GenStep
    \/ Close
    \/ ChatReturn("caller")
    \/ ChatExcept("caller")
    \/ SetStop

SpecSave == InitConv /\ [][NextSave]_vars


\* ------------------------------------------------------------- claims
\* What the cycle has added to the log after the caller's input.
Appended == SubSeq(messages, Len(obs.input_log) + 1, Len(messages))

\* C1: chat() raises the Responding Flag on entry, and a synchronous call
\* (blocking, no stream, no display) leaves it down on every way out: the
\* return after exhaustion or cancellation, and an exception from the
\* Response Source or from the check of the input.
C1_SyncCallReleasesFlag ==
    /\ caller = "chat" => responding
    /\ (caller = "idle" /\ ret.kind \in {"list", "raised"}) => ~responding

\* The Response Source raised after it had yielded a chunk, and chat() has
\* passed the exception on.
C1_Witness ==
    /\ caller = "idle" /\ ret.kind = "raised"
    /\ obs.started /\ yielded > 0 /\ gen.pc = "raised"
    /\ ~responding

\* C2: once the caller has drained the stream chat(stream=True) returned, or
\* has closed it, the Responding Flag is down.
C2_StreamReleasesFlag ==
    (gen.owner = "stream" /\ gen.pc \in {"done", "closed"}) => ~responding

\* C3: a wait() made after a non-blocking chat(message) returns only once the
\* background cycle has ended, with the entries that cycle added after the
\* caller's input (the log from the cursor the cycle recorded).
C3_WaitReturnsAfterCycle ==
    (ret.kind = "wait" /\ bg.pc # "none" /\ ~bg.stream) =>
        /\ bg.pc = "done"
        /\ gen.owner = "bg" /\ gen.pc \in {"done", "raised"}
        /\ obs.started =>
              /\ last_messages_count = Len(obs.input_log)
              /\ messages = obs.input_log \o ret.value

\* wait() has returned the two entries of a finished background cycle.
C3_Witness ==
    /\ ret.kind = "wait" /\ bg.pc = "done" /\ ~bg.stream
    /\ gen.pc = "done" /\ Len(ret.value) >= 2
    /\ ret.value = Appended

\* C4: after any non-blocking chat(message, stream=s) the Responding Flag
\* comes down once the background thread has run, so that wait() returns.
C4_BackgroundReleasesFlag ==
    bg.pc = "done" => ~responding


\* ---------------------------------------------- claims on the aggregator
FlagPart(e) == [role |-> e.role, type |-> e.type, format |-> e.format]
Count(evs, what) == Cardinality({ i \in DOMAIN evs : evs[i].event = what })
Front(q) == SubSeq(q, 1, Len(q) - 1)

\* The start flags of evs that no end flag has answered yet, oldest first.
RECURSIVE Unmatched(_)
Unmatched(evs) ==
    IF evs = <<>> THEN <<>>
    ELSE LET e == Last(evs)
             open == Unmatched(Front(evs))
         IN IF e.event = "start" THEN Append(open, FlagPart(e))
            ELSE IF e.event = "end" /\ open # <<>> THEN Front(open)
            ELSE open

\* Every end flag carries what the latest unanswered start flag carries.
EndsMatch(evs) ==
    \A i \in DOMAIN evs :
        evs[i].event = "end" =>
            LET open == Unmatched(SubSeq(evs, 1, i - 1))
            IN open # <<>> /\ Last(open) = FlagPart(evs[i])

IsConfirmation(c) == c.type = "confirmation"
IsEphemeralChunk(c) == c.format = "active_line" \/ c.type = "review"
IsEmpty(c) == c.content = <<>>
IsReview(c) == c.type = "review"
IsActiveLine(c) == c.format = "active_line" /\ c.content # None
SrcHasConfirmation == \E i \in DOMAIN obs.src : IsConfirmation(obs.src[i])
SrcHasEphemeral == \E i \in DOMAIN obs.src : IsEphemeralChunk(obs.src[i])
SrcHasEmpty == \E i \in DOMAIN obs.src : IsEmpty(obs.src[i])
SrcHasReview == \E i \in DOMAIN obs.src : IsReview(obs.src[i])
SrcHasActiveLine == \E i \in DOMAIN obs.src : IsActiveLine(obs.src[i])

\* C5: in what the aggregator yields, every end flag answers the latest
\* unanswered start flag with the same (role, type, format), and once the
\* cycle is drained there are as many end flags as start flags, whatever
\* confirmation, ephemeral and empty chunks the source yields.
C5_FlagsBalanced ==
    /\ EndsMatch(events)
    /\ gen.pc = "done" =>
          /\ Unmatched(events) = <<>>
          /\ Count(events, "end") = Count(events, "start")

\* A drained cycle with a confirmation, an ephemeral and an empty chunk that
\* opened and closed a message.
C5_Witness ==
    /\ gen.pc = "done" /\ ~obs.cancel_seen
    /\ SrcHasConfirmation /\ SrcHasEphemeral /\ SrcHasEmpty
    /\ Count(events, "start") >= 1
    /\ Count(events, "end") = Count(events, "start")

RECURSIVE Concat(_)
Concat(chunks) ==
    IF chunks = <<>> THEN <<>> ELSE Head(chunks).content \o Concat(Tail(chunks))

SameKindRun(src) ==
    /\ Len(src) >= 1
    /\ \A i \in DOMAIN src : Kind(src[i]) = Kind(src[1])

EntriesOfKind(log, k) == { i \in DOMAIN log : Kind(log[i]) = k }

Pulled == yielded' = yielded + 1
PulledChunk == Last(obs'.src)

\* The step after the start flag of a message of type "code".
CodeOpened == gen.pc = "L456" /\ gen'.pc = "L483" /\ gen.chunk.type = "code"

\* C7: the step that opens a message of type "code" adds the screenshot as an
\* image entry of the chunk's role directly before the code entry; when the
\* Screenshot Provider fails the code entry is added alone and the cycle
\* goes on.  So [assistant code, computer console output] leaves
\* [image(assistant), code, console output].
C7_ScreenshotBeforeCode ==
    /\ [][CodeOpened =>
            /\ obs'.shot \in {"ok", "failed"}
            /\ obs'.shot = "ok" =>
                  messages' = messages \o
                      << Msg(gen.chunk.role, "image", "path", ScreenshotPath),
                         gen.chunk >>
            /\ obs'.shot = "failed" => messages' = Append(messages, gen.chunk)]_vars
    /\ []( ( /\ gen.pc = "done" /\ ~obs.cancel_seen /\ obs.shot = "ok"
             /\ Len(obs.src) = 2
             /\ Kind(obs.src[1]) = <<"assistant", "code", "python">>
             /\ obs.src[2] = Msg("computer", "console", "output", <<"2">>) ) =>
           Appended = << Msg("assistant", "image", "path", ScreenshotPath),
                         Msg("assistant", "code", "python", <<"1">>),
                         Msg("computer", "console", "output", <<"2">>) >> )

\* The cycle of the example has ended with the three entries.
C7_Witness ==
    /\ gen.pc = "done" /\ obs.shot = "ok" /\ Len(obs.src) = 2
    /\ Appended = << Msg("assistant", "image", "path", ScreenshotPath),
                     Msg("assistant", "code", "python", <<"1">>),
                     Msg("computer", "console", "output", <<"2">>) >>

\* A step that handles an ephemeral chunk: the pull that yields it, or a
\* later resumption of the generator with it.
EphemeralStep ==
    \/ Pulled /\ IsEphemeralChunk(PulledChunk)
    \/ gen.pc \in {"L448", "L456", "L483"} /\ gen' # gen /\ IsEphemeralChunk(gen.chunk)

NoEphemeralEntry(log) ==
    \A i \in DOMAIN log : log[i].format # "active_line" /\ log[i].type # "review"

\* C8: a step that handles an ephemeral chunk (format "active_line" or type
\* "review") changes no entry of the log and adds nothing but the empty
\* output placeholder; no entry of the log or of a snapshot is ephemeral.
C8_EphemeralNeverStored ==
    /\ [][EphemeralStep =>
            /\ Len(messages') >= Len(messages)
            /\ SubSeq(messages', 1, Len(messages)) = messages
            /\ \A i \in (Len(messages) + 1)..Len(messages') :
                  messages'[i] = Msg("computer", "console", "output", <<>>)]_vars
    /\ [](NoEphemeralEntry(messages) /\ \A f \in disk : NoEphemeralEntry(f.snapshot))

\* A saved cycle in which a review chunk and an active_line chunk came after
\* a stored entry.
C8_Witness ==
    /\ gen.pc = "done" /\ ~obs.cancel_seen /\ disk # {}
    /\ Len(obs.src) = 3 /\ ~IsEphemeralChunk(obs.src[1]) /\ ~IsEmpty(obs.src[1])
    /\ SrcHasReview /\ SrcHasActiveLine
    /\ Len(Appended) >= 1

IsMarker(c) == c.format = "active_line" /\ c.content = None

\* C9: the end-of-execution marker (format "active_line", content None) adds
\* one empty console output entry of role "computer" when the last entry is
\* not of role "computer", and leaves the log alone when it is; so a marker
\* right after a code entry leaves the empty entry at the end of the log.
C9_MarkerAddsPlaceholder ==
    /\ [][(Pulled /\ IsMarker(PulledChunk) /\ ~stop_event /\ messages # <<>>) =>
            messages' = IF Last(messages).role # "computer"
                        THEN Append(messages, Msg("computer", "console", "output", <<>>))
                        ELSE messages]_vars
    /\ []( ( /\ gen.pc = "done" /\ ~obs.cancel_seen /\ Len(obs.src) >= 2
             /\ obs.src[Len(obs.src) - 1].type = "code"
             /\ ~IsEmpty(obs.src[Len(obs.src) - 1])
             /\ IsMarker(Last(obs.src)) ) =>
           /\ Len(messages) >= 2
           /\ Last(messages) = Msg("computer", "console", "output", <<>>)
           /\ messages[Len(messages) - 1].type = "code" )

\* A code chunk, then the marker: the log ends with the code entry and the
\* empty output entry.
C9_Witness ==
    /\ gen.pc = "done" /\ ~obs.cancel_seen /\ Len(obs.src) = 2
    /\ obs.src[1].type = "code" /\ IsMarker(obs.src[2])
    /\ Last(messages) = Msg("computer", "console", "output", <<>>)
    /\ messages[Len(messages) - 1].type = "code"

\* C10: once a chunk was pulled with cancellation signaled, the log stays
\* what it was at that moment, to the end of the cycle.
C10_CancelledLogFrozen ==
    obs.cancel_seen => messages = obs.cancel_log

\* A cycle cancelled after it had stored an entry, ended.
C10_Witness ==
    /\ obs.cancel_seen /\ gen.pc = "done" /\ caller = "idle"
    /\ Len(obs.src) >= 2 /\ ~IsEmpty(Last(obs.src)) /\ ~IsEphemeralChunk(Last(obs.src))
    /\ Len(Appended) >= 1
    /\ messages = obs.cancel_log

\* ------------------------------------------ claims on events and inputs
\* What the generator has yielded since the last chunk was pulled.
SincePull == SubSeq(events, Len(obs.pre_events) + 1, Len(events))

\* C11: once a chunk was pulled with cancellation signaled, the generator
\* yields nothing more to the consumer: no chunk, no start flag and no end
\* flag, also with a message open at that moment.
C11_NoEventAfterCancel ==
    (gen.owner = "stream" /\ obs.cancel_seen) => events = obs.pre_events

\* The last chunk pulled was a confirmation chunk with content, pulled with
\* no cancellation signaled, and the generator has finished with it.
ConfirmationHandled ==
    /\ obs.src # <<>> /\ ~obs.cancel_seen
    /\ Last(obs.src).type = "confirmation" /\ Last(obs.src).content # <<>>
    /\ gen.pc = "pull"

\* C12: a confirmation chunk adds nothing to the log and causes no start
\* flag; with a message open exactly its end flag is yielded, and no message
\* is open afterwards, so that the next chunk that is stored or yielded
\* starts a new message; the chunk itself is yielded if and only if auto_run
\* is off.
C12_ConfirmationClosesOnly ==
    /\ ( /\ obs.src # <<>> /\ ~obs.cancel_seen
         /\ Last(obs.src).type = "confirmation" /\ Last(obs.src).content # <<>>
         /\ gen.pc \in {"L414", "L418", "pull"} ) =>
            /\ messages = obs.pre_log
            /\ \A i \in DOMAIN SincePull : SincePull[i].event # "start"
    /\ ConfirmationHandled =>
            /\ gen.flag = NoFlag
            /\ SincePull =
                  (IF obs.pre_flag # NoFlag
                   THEN << [event |-> "end", role |-> obs.pre_flag.role,
                            type |-> obs.pre_flag.type,
                            format |-> obs.pre_flag.format, content |-> <<>>] >>
                   ELSE <<>>)
                  \o (IF auto_run THEN <<>>
                      ELSE << [event |-> "chunk", role |-> Last(obs.src).role,
                               type |-> "confirmation",
                               format |-> Last(obs.src).format,
                               content |-> Last(obs.src).content] >>)
    /\ ( /\ Len(obs.src) >= 2 /\ ~obs.cancel_seen
         /\ obs.src[Len(obs.src) - 1].type = "confirmation"
         /\ obs.src[Len(obs.src) - 1].content # <<>>
         /\ Last(obs.src).type # "confirmation" /\ Last(obs.src).content # <<>>
         /\ gen.pc \in {"L456", "L483", "pull"} ) =>
            /\ obs.pre_flag = NoFlag
            /\ SincePull # <<>> /\ SincePull[1].event = "start"

\* A confirmation chunk that came with a message open has been handled with
\* auto_run off: the end flag and the chunk were yielded.
C12_Witness ==
    /\ ConfirmationHandled /\ ~auto_run
    /\ obs.pre_flag # NoFlag /\ Len(SincePull) = 2
    /\ gen.flag = NoFlag

Chars(s) == { s[i] : i \in DOMAIN s }
\* The characters of the chunks of kind k that the source yielded.
SourceChars(src, k) ==
    UNION { Chars(src[i].content) : i \in { j \in DOMAIN src : Kind(src[j]) = k } }

\* Entry e is one that the chunks src produce: the empty output placeholder,
\* the screenshot that goes with a code chunk, or an entry of the kind of
\* some chunk of src whose content is made of the contents of those chunks
\* (and of the truncation message).
FromSource(e, src) ==
    \/ e = Msg("computer", "console", "output", <<>>)
    \/ /\ e = Msg(e.role, "image", "path", ScreenshotPath)
       /\ \E i \in DOMAIN src : src[i].type = "code" /\ src[i].role = e.role
    \/ /\ \E i \in DOMAIN src : Kind(src[i]) = Kind(e) /\ src[i].content # <<>>
       /\ e.content # <<>>
       /\ Chars(e.content) \subseteq SourceChars(src, Kind(e)) \cup Chars(TruncationMessage)

\* C13: chat(message, display=False) returns the log from the cursor to the
\* end, and the cursor is the length the log had right after the caller's
\* input was recorded: the result is the entries this cycle added after the
\* input, in order, each produced by this call's chunks; the entries of
\* earlier calls and the input stay in front of the cursor.
C13_SyncCallReturnsNewEntries ==
    (caller = "idle" /\ ret.kind = "list") =>
        /\ obs.started
        /\ last_messages_count = Len(obs.input_log)
        /\ Len(messages) = Len(obs.input_log) + Len(ret.value)
        /\ \A i \in DOMAIN ret.value :
              /\ ret.value[i] = messages[Len(obs.input_log) + i]
              /\ FromSource(ret.value[i], obs.src)
        /\ gen.message.kind # "list" =>
              /\ Len(obs.input_log) = Len(obs.prior) + 1
              /\ SubSeq(messages, 1, Len(obs.prior)) = obs.prior
        /\ gen.message.kind = "str" =>
              SubSeq(messages, 1, Len(obs.input_log)) = obs.input_log

\* The second call of a conversation has returned the one entry it added,
\* behind the entries of the first call and its own input.
C13_Witness ==
    /\ caller = "idle" /\ ret.kind = "list" /\ calls = 2
    /\ Len(obs.prior) >= 2 /\ gen.message = StrMessage(Hello)
    /\ Len(ret.value) = 1 /\ ret.value[1].role = "assistant"
    /\ messages = obs.prior \o << Msg("user", "message", NoFormat, Hello) >> \o ret.value

\* The generator has gone past lines 286-305.
PastInput == gen.pc \in SuspendedAt \cup {"pull", "done", "raised"}

\* C14: chat(s, display=False) with a string s, the empty string included,
\* adds the one entry {role user, type message, content s} to the end of the
\* log; with a single dict it adds that dict, its role set to "user" when
\* it has none and kept otherwise; the log of before stays in front, and the
\* cursor is the new length before any chunk is handled.
C14_SingleMessageAppended ==
    /\ (PastInput /\ gen.message.kind = "str") =>
          /\ obs.started
          /\ obs.input_log =
                obs.prior \o << [role |-> "user", type |-> "message",
                                 format |-> NoFormat,
                                 content |-> gen.message.value] >>
    /\ (PastInput /\ gen.message.kind = "dict") =>
          /\ obs.started
          /\ obs.input_log =
                obs.prior \o << [role |-> IF gen.message.value.role = "none"
                                          THEN "user" ELSE gen.message.value.role,
                                 type |-> gen.message.value.type,
                                 format |-> gen.message.value.format,
                                 content |-> gen.message.value.content] >>
    /\ (gen.pc = "pull" /\ obs.src = <<>> /\ gen.message.kind \in {"str", "dict"}) =>
          /\ messages = obs.input_log
          /\ last_messages_count = Len(obs.prior) + 1

\* The second call of a conversation passed a dict without a role: it is in
\* the log as a user entry behind the entries of the first call.
C14_Witness ==
    /\ gen.pc = "pull" /\ obs.src = <<>> /\ calls = 2 /\ Len(obs.prior) >= 2
    /\ gen.message.kind = "dict" /\ gen.message.value.role = "none"
    /\ Last(messages) = Msg("user", "message", NoFormat, <<"y">>)
    /\ last_messages_count = Len(messages)

\* C15 as stated: for every list L passed as the message, the empty list
\* included, the log right after lines 286-305 is L and the cursor is its
\* length, whatever the log was, and the cycle runs on it.
C15_ListReplacesLog ==
    (gen.message.kind = "list" /\ gen.pc \notin {"none", "start", "closed"}) =>
        /\ obs.started
        /\ obs.input_log = gen.message.value
        /\ (gen.pc = "pull" /\ obs.src = <<>>) =>
              /\ messages = gen.message.value
              /\ last_messages_count = Len(gen.message.value)

\* C15 amended: the same for every list that is not empty; with the empty
\* list the call fails as a call with no message does, and the log and
\* the cursor stay what they were (all of it until the next reset()).
C15_NonEmptyListReplacesLog ==
    /\ ( /\ gen.message.kind = "list" /\ gen.message.value # <<>>
         /\ gen.pc \notin {"none", "start", "closed"} /\ ret.kind # "reset" ) =>
            /\ obs.started
            /\ obs.input_log = gen.message.value
            /\ (gen.pc = "pull" /\ obs.src = <<>>) =>
                  /\ messages = gen.message.value
                  /\ last_messages_count = Len(gen.message.value)
            /\ Len(messages) >= Len(gen.message.value)
            /\ SubSeq(messages, 1, Len(gen.message.value)) = gen.message.value
    /\ ( /\ gen.message.kind = "list" /\ gen.message.value = <<>>
         /\ gen.pc \notin {"none", "start", "closed"} /\ ret.kind # "reset" ) =>
            /\ gen.pc = "raised" /\ ~obs.started
            /\ messages = obs.prior
            /\ last_messages_count = obs.prior_cursor

\* The second call of a conversation passed a list: the log is that list,
\* the entries of the first call are gone, and a chunk has been stored
\* behind it.
C15_Witness ==
    /\ calls = 2 /\ gen.message.kind = "list" /\ gen.message.value # <<>>
    /\ Len(obs.prior) >= 3 /\ gen.pc = "done" /\ Len(obs.src) >= 1
    /\ Len(messages) = Len(gen.message.value) + 1
    /\ SubSeq(messages, 1, 2) = gen.message.value
    /\ last_messages_count = 2

\* C16: chat() with no message and display=False fails in the call itself,
\* before anything is returned to the caller, with stream=False as with
\* stream=True, and leaves the log and the cursor as they were.
C16_NoMessageFailsInCall ==
    (gen.message = NoMessage /\ gen.owner \in {"caller", "stream"}
       /\ gen.pc # "none" /\ caller = "idle") =>
        /\ ret.kind = "raised"
        /\ messages = obs.prior
        /\ last_messages_count = obs.prior_cursor

IsConsoleOutput(m) == m.type = "console" /\ m.format = "output"
\* The bound of the Output Truncator: max_output and its marker.
WithinOutputBound(s) == Len(s) <= MaxOutput + Len(TruncationMessage)

\* What the last entry held after the console output chunk c was stored and
\* before lines 486-491 ran: the chunk's content, behind the content of the
\* entry it was concatenated onto when no entry was added.
StoredBeforeTruncation(c) ==
    IF Len(messages) = Len(obs.pre_log)
    THEN Last(obs.pre_log).content \o c.content
    ELSE c.content

\* C17: when the aggregator has finished with a console output chunk, the
\* last entry holds what the Output Truncator makes of its content with
\* max_output: content no longer than max_output is kept as it is, longer
\* content is cut to max_output behind the marker; and every console output
\* entry a cycle has added is within max_output plus the marker once the
\* chunk that wrote it is finished with.
C17_ConsoleOutputBounded ==
    /\ ( /\ gen.pc = "pull" /\ obs.src # <<>> /\ ~obs.cancel_seen
         /\ IsConsoleOutput(Last(obs.src)) /\ Last(obs.src).content # <<>> ) =>
            LET raw == StoredBeforeTruncation(Last(obs.src))
            IN /\ IsConsoleOutput(Last(messages))
               /\ Len(raw) <= MaxOutput => Last(messages).content = raw
               /\ Len(raw) > MaxOutput =>
                     Last(messages).content =
                        TruncationMessage \o SubSeq(raw, Len(raw) - MaxOutput + 1, Len(raw))
               /\ WithinOutputBound(Last(messages).content)
    /\ gen.pc \in {"pull", "done", "raised"} =>
            \A i \in DOMAIN messages :
                (i > Len(obs.input_log) /\ IsConsoleOutput(messages[i])) =>
                    WithinOutputBound(messages[i].content)

\* Three console output chunks of one character each, with max_output 2:
\* the entry holds the marker and the last two characters.
C17_Witness ==
    /\ gen.pc = "done" /\ ~obs.cancel_seen /\ Len(obs.src) = 3
    /\ \A i \in DOMAIN obs.src : obs.src[i] = Msg("computer", "console", "output", <<ToString(i)>>)
    /\ Appended = << Msg("computer", "console", "output",
                         TruncationMessage \o <<"2", "3">>) >>

\* C18: reset() leaves the log empty and the cursor 0 whatever they were;
\* a chat("hello", display=False) after it gives a log whose first entry is
\* the user message "hello", followed only by entries this call's chunks
\* produce: nothing of the log of before the reset is left.
C18_ResetThenChat ==
    /\ ret.kind = "reset" => (messages = <<>> /\ last_messages_count = 0)
    /\ ( /\ obs.after_reset /\ gen.message = StrMessage(Hello)
         /\ PastInput /\ ret.kind # "reset" ) =>
            /\ obs.prior = <<>> /\ obs.prior_cursor = 0
            /\ messages # <<>>
            /\ messages[1] = [role |-> "user", type |-> "message",
                              format |-> NoFormat, content |-> Hello]
            /\ last_messages_count = 1
            /\ \A i \in 2..Len(messages) : FromSource(messages[i], obs.src)

\* A first call left four entries or more, reset() dropped them, and the
\* chat("hello") after it has ended with "hello" and one entry behind it.
C18_Witness ==
    /\ obs.after_reset /\ Len(obs.wiped) >= 4 /\ gen.message = StrMessage(Hello)
    /\ gen.pc = "done" /\ caller = "idle" /\ ret.kind = "list"
    /\ Len(messages) = 2 /\ messages[1].content = Hello
    /\ ret.value = << messages[2] >>

\* ------------------------------------------------- claims on snapshots
\* C19: with conversation_history on, the file is written only when the
\* aggregator has ended (source exhausted, or cancellation seen), never
\* while chunks are handled, and then holds the whole log; nothing is
\* written when the source raises or the consumer closes the stream before
\* the end.  The name is made at the first write of the instance and every
\* later write goes to the same file.
C19_SnapshotAtEndUnderOneName ==
    /\ gen.pc # "done" => disk = obs.prior_disk
    /\ gen.pc # "done" => conversation_filename = obs.prior_name
    /\ (gen.pc = "done" /\ conversation_history) =>
          /\ conversation_filename # NoName
          /\ disk = { [name |-> conversation_filename, snapshot |-> messages] }
    /\ obs.prior_name # NoName => conversation_filename = obs.prior_name
    /\ (obs.prior_name = NoName /\ conversation_filename # NoName) =>
          conversation_filename = [slug |-> Hello, date |-> calls]
    /\ Cardinality(disk) <= 1

\* The second call of an instance has ended: the one file, under the name
\* made by the first call, holds the log of both calls.
C19_Witness ==
    /\ calls = 2 /\ gen.pc = "done" /\ gen.owner = "stream"
    /\ obs.prior_name = [slug |-> Hello, date |-> 1]
    /\ obs.prior_disk # {} /\ Len(messages) > Len(obs.prior) + 1
    /\ disk = { [name |-> [slug |-> Hello, date |-> 1], snapshot |-> messages] }

\* ------------------------------------------- claims on the boundaries
IsPrefix(a, b) == Len(a) <= Len(b) /\ a = SubSeq(b, 1, Len(a))

\* The last chunk pulled is one the aggregator stores or yields under a
\* flag: it has content, is no confirmation chunk, and was pulled with no
\* cancellation signaled.
BoundaryChunk ==
    /\ obs.src # <<>> /\ ~obs.cancel_seen
    /\ Last(obs.src).content # <<>> /\ Last(obs.src).type # "confirmation"

\* C20: such a chunk continues the open message, with no end and no start
\* flag, exactly when a message is open, its role and type are the chunk's,
\* and it carries no format or the chunk's format; the flag of a console
\* message carries no format, so an open console message takes console
\* chunks of any format.  Otherwise the open message, if any, is ended and
\* a message of the chunk's role, type and (unless type is "console") format
\* is started.
C20_ContinuationTest ==
    /\ gen.flag.type = "console" => gen.flag.format = NoFormat
    /\ (BoundaryChunk /\ gen.pc \in {"L448", "L456", "L483", "pull"}) =>
          LET c == Last(obs.src)
              open == obs.pre_flag
              continues ==
                  /\ open # NoFlag
                  /\ open.role = c.role /\ open.type = c.type
                  /\ (open.format = "none" \/ c.format = open.format)
              started == [role |-> c.role, type |-> c.type,
                          format |-> IF c.type = "console" THEN "none" ELSE c.format]
              raw == [event |-> "chunk", role |-> c.role, type |-> c.type,
                      format |-> c.format, content |-> c.content]
              end == [event |-> "end", role |-> open.role, type |-> open.type,
                      format |-> open.format, content |-> <<>>]
              start == [event |-> "start", role |-> started.role,
                        type |-> started.type, format |-> started.format,
                        content |-> <<>>]
              expected ==
                  IF continues THEN << raw >>
                  ELSE (IF open # NoFlag THEN << end >> ELSE <<>>) \o << start, raw >>
          IN /\ IsPrefix(SincePull, expected) /\ SincePull # <<>>
             /\ gen.pc \in {"L483", "pull"} =>
                   /\ SincePull = expected
                   /\ gen.flag = IF continues THEN open ELSE started

\* A console output chunk and an active_line chunk went under one console
\* flag; a message chunk then ended it and started its own.
C20_Witness ==
    /\ gen.pc = "pull" /\ ~obs.cancel_seen /\ Len(obs.src) = 3
    /\ obs.src[1].type = "console" /\ obs.src[1].format = "output"
    /\ obs.src[2].format = "active_line" /\ obs.src[2].content # <<>>
    /\ obs.src[3].type = "message" /\ obs.src[3].content # <<>>
    /\ Count(events, "start") = 2 /\ Count(events, "end") = 1
    /\ Len(events) = 6
    /\ gen.flag = [role |-> "assistant", type |-> "message", format |-> NoFormat]

\* The last chunk pulled continues the message that was open when it was
\* pulled (the test of C20), is stored, and has just been yielded.
ContinuationStored ==
    /\ BoundaryChunk /\ gen.pc = "L483"
    /\ Last(obs.src).format # "active_line" /\ Last(obs.src).type # "review"
    /\ obs.pre_flag # NoFlag
    /\ obs.pre_flag.role = Last(obs.src).role
    /\ obs.pre_flag.type = Last(obs.src).type
    /\ (obs.pre_flag.format = "none" \/ Last(obs.src).format = obs.pre_flag.format)

\* C21: a stored chunk that continues the open message becomes a new entry
\* when the role, the type or the format the last entry carries is not the
\* chunk's, and otherwise its content goes behind the last entry's; so
\* content is never added to an entry of another role or type.  A console
\* output chunk behind an active_line chunk that started the console
\* message is an entry of its own behind the code entry.
C21_ContinuationAppendsOrConcatenates ==
    /\ ContinuationStored =>
          LET c == Last(obs.src)
              last == Last(obs.pre_log)
              differs == \/ last.role # c.role
                         \/ last.type # c.type
                         \/ (last.format # "none" /\ last.format # c.format)
          IN /\ obs.pre_log # <<>>
             /\ differs => messages = obs.pre_log \o << c >>
             /\ ~differs =>
                   /\ Len(messages) = Len(obs.pre_log)
                   /\ SubSeq(messages, 1, Len(messages) - 1) =
                         SubSeq(obs.pre_log, 1, Len(obs.pre_log) - 1)
                   /\ Last(messages) =
                         [role |-> last.role, type |-> last.type,
                          format |-> last.format,
                          content |-> last.content \o c.content]
                   /\ last.role = c.role /\ last.type = c.type
    /\ ( /\ gen.pc = "done" /\ ~obs.cancel_seen /\ Len(obs.src) = 3
         /\ obs.src[1].type = "code" /\ obs.src[1].content # <<>>
         /\ obs.src[2].format = "active_line" /\ obs.src[2].content # <<>>
         /\ obs.src[2].content # None
         /\ obs.src[3] = Msg("computer", "console", "output", <<"3">>) ) =>
            /\ Len(messages) >= 2
            /\ Last(messages) = Msg("computer", "console", "output", <<"3">>)
            /\ messages[Len(messages) - 1] = obs.src[1]

\* The cycle of the example has ended: the code entry, then the output
\* entry.
C21_Witness ==
    /\ gen.pc = "done" /\ ~obs.cancel_seen /\ Len(obs.src) = 3
    /\ obs.src[1].type = "code" /\ obs.src[2].format = "active_line"
    /\ obs.src[2].content = <<"2">>
    /\ obs.src[3] = Msg("computer", "console", "output", <<"3">>)
    /\ Last(messages) = Msg("computer", "console", "output", <<"3">>)
    /\ messages[Len(messages) - 1] = Msg("assistant", "code", obs.src[1].format, <<"1">>)
    /\ Count(events, "start") = 2

\* --------------------------------------------- claims on what is yielded
AsChunk(e) == Msg(e.role, e.type, e.format, e.content)
\* The chunks among what was yielded, in the order they were yielded.
ChunksYielded ==
    LET ce == SelectSeq(events, LAMBDA e : e.event = "chunk")
    IN [i \in DOMAIN ce |-> AsChunk(ce[i])]
\* The chunks of the source that are to be yielded: those with content,
\* without the confirmation chunks when auto_run is on.
ChunksDue ==
    SelectSeq(obs.src, LAMBDA c : c.content # <<>>
                                  /\ (c.type # "confirmation" \/ ~auto_run))
EndsWith(s, t) == Len(t) <= Len(s) /\ SubSeq(s, Len(s) - Len(t) + 1, Len(s)) = t

\* What holds of the events in every state: the drained, uncancelled cycle
\* has yielded the due chunks, once each and in order; at most one message
\* is open at any time; a chunk that is no confirmation is yielded with one
\* message open, of the chunk's role and type; and a stored chunk is in the
\* last entry of the log when it is yielded.  Events are yielded one at a
\* step, so what is said of the last event holds of every event.
YieldedInOrder ==
    /\ (gen.pc = "done" /\ ~obs.cancel_seen) => ChunksYielded = ChunksDue
    /\ Len(Unmatched(events)) <= 1
    /\ ( /\ events # <<>> /\ Last(events).event = "chunk"
         /\ Last(events).type # "confirmation" ) =>
            LET open == Unmatched(Front(events))
            IN /\ Len(open) = 1
               /\ open[1].role = Last(events).role
               /\ open[1].type = Last(events).type
    /\ ( /\ gen.pc = "L483" /\ gen.chunk.format # "active_line"
         /\ gen.chunk.type # "review" ) =>
            /\ Last(events) = [event |-> "chunk", role |-> gen.chunk.role,
                               type |-> gen.chunk.type,
                               format |-> gen.chunk.format,
                               content |-> gen.chunk.content]
            /\ messages # <<>>
            /\ Last(messages).role = gen.chunk.role
            /\ Last(messages).type = gen.chunk.type
            /\ EndsWith(Last(messages).content, gen.chunk.content)

\* C22 as stated: as above, and a chunk is yielded after every change of
\* the log it causes: the step that follows the yield of a chunk leaves the
\* log as it is.
C22_ChunkYieldedAfterLogChange ==
    /\ []YieldedInOrder
    /\ [][gen.pc = "L483" => messages' = messages]_vars

\* C22 amended: a chunk is yielded after it was stored (appended or
\* concatenated, behind the placeholder and the screenshot it brings);
\* the one change that follows the yield is the truncation of the last
\* entry after a console output chunk.
C22_ChunkYieldedAfterStore ==
    /\ []YieldedInOrder
    /\ [][(gen.pc = "L483" /\ gen'.pc = "pull") =>
            \/ messages' = messages
            \/ /\ gen.chunk.type = "console" /\ gen.chunk.format = "output"
               /\ Len(Last(messages).content) > MaxOutput
               /\ Len(messages') = Len(messages)
               /\ SubSeq(messages', 1, Len(messages) - 1) =
                     SubSeq(messages, 1, Len(messages) - 1)
               /\ Last(messages').content =
                     TruncationMessage \o
                     SubSeq(Last(messages).content,
                            Len(Last(messages).content) - MaxOutput + 1,
                            Len(Last(messages).content))]_vars

\* A drained cycle of a code chunk, an empty chunk and a console output
\* chunk has yielded the two chunks with content, each under its own flag.
C22_Witness ==
    /\ gen.pc = "done" /\ ~obs.cancel_seen /\ Len(obs.src) = 3
    /\ obs.src[1].type = "code" /\ obs.src[2].content = <<>>
    /\ obs.src[3] = Msg("computer", "console", "output", <<"3">>)
    /\ ChunksYielded = << obs.src[1], obs.src[3] >>
    /\ Count(events, "start") = 2 /\ Count(events, "end") = 2

\* ------------------------------------------- claims on the log's shape
NoAdjacentSameKind(log) ==
    \A i \in 1..(Len(log) - 1) : Kind(log[i]) # Kind(log[i + 1])

LogStep(old, new, c) ==
    /\ Len(new) >= Len(old)
    /\ \A i \in 1..(Len(old) - 1) : new[i] = old[i]
    /\ old # <<>> =>
          LET a == old[Len(old)]
              b == new[Len(old)]
              grown == a.content \o c.content
          IN /\ b.role = a.role /\ b.type = a.type /\ b.format = a.format
             /\ \/ b.content = a.content
                \/ b.content = grown
                \/ /\ b.type = "console" /\ b.format = "output"
                   /\ Len(grown) > MaxOutput
                   /\ b.content =
                        <<"Output truncated.">> \o
                        SubSeq(grown, Len(grown) - MaxOutput + 1, Len(grown))

\* C24: while a cycle processes chunks the log is append-only: from the
\* moment a chunk is taken from the source until the next one is taken the
\* log does not get shorter, every entry but the last one is unchanged, and
\* the last one changes only in its content, which grows by the chunk's
\* content (or is the truncation of that, for console output).
C24_LogAppendOnly ==
    obs.src # <<>> => LogStep(obs.pre_log, messages, Last(obs.src))

\* A chunk's content has been added to the entry the log ended with.
C24_Witness ==
    /\ gen.pc = "L483" /\ Len(messages) = 2 /\ Len(obs.pre_log) = 2
    /\ Last(obs.src).content # <<>>
    /\ Last(messages).content =
         Last(obs.pre_log).content \o Last(obs.src).content

\* ------------------------------------------------------ claims on reset()
\* A step of reset(): the caller's last call becomes the reset.
ResetStep ==
    /\ ret'.kind = "reset"
    /\ ret.kind # "reset" \/ obs'.wiped # obs.wiped

\* The first cycle after a reset has ended and saved, and the conversation
\* before the reset had been saved too.
SavedAfterReset ==
    /\ obs.after_reset /\ gen.pc = "done" /\ caller # "idle"
    /\ obs.prior_disk # {}

\* C25: reset() leaves the Responding Flag, the stored conversation name and
\* the files on disk as they are (it changes the log and the cursor only),
\* and so the snapshot written by the next call after a reset goes under
\* the name derived before the reset and takes the place of the snapshot of
\* the earlier conversation: the disk still holds one file, of the old
\* name, and it holds the new log.
C25_ResetKeepsNameAndDisk ==
    /\ [][ResetStep =>
            /\ responding' = responding
            /\ conversation_filename' = conversation_filename
            /\ disk' = disk
            /\ messages' = <<>> /\ last_messages_count' = 0]_vars
    /\ [](SavedAfterReset =>
            /\ conversation_filename = obs.prior_name
            /\ \E f \in obs.prior_disk : f.name = conversation_filename
            /\ disk = { [name |-> f.name, snapshot |-> messages] :
                          f \in obs.prior_disk })

\* "hello" was saved, the log reset, and the second call's log saved over
\* it, under the name of the first call.
C25_Witness ==
    /\ SavedAfterReset
    /\ obs.wiped # <<>> /\ messages # <<>> /\ messages[1].content # Hello
    /\ obs.prior_disk =
         { [name |-> [slug |-> Hello, date |-> 1], snapshot |-> obs.wiped] }
    /\ disk = { [name |-> [slug |-> Hello, date |-> 1], snapshot |-> messages] }

====
